---- MODULE Spec2Model ----
(***************************************************************************)
(* The VRNN example notebook (examples/vrnn.ipynb): the dataset adapter,   *)
(* the four step modules, the auto-regressive loss, data_loop,             *)
(* plot_image_from_latent and the epoch loop that drives them.             *)
(*                                                                         *)
(* Tensors are modelled by their shape and an abstract content: a row      *)
(* vector is [dim, val], a batch is a sequence of row vectors, a series    *)
(* is a sequence of batches.  Every layer maps contents through a fixed    *)
(* arithmetic mix (modulo Mod) of its input, its identity and the current  *)
(* parameter version, so that two different inputs, layers or parameter    *)
(* versions give different outputs in general.  Real-valued losses are     *)
(* exact rationals [num, den].                                             *)
(***************************************************************************)
EXTENDS Integers, Sequences, FiniteSets, TLC

\* ------------------------------------------------------------ constants
batch_size == 32
epochs == 10
seed == 1
fixed_t_size == 28
x_dim == 28
h_dim == 100
z_dim == 64
t_max == x_dim
\* An auto-regressive loss that stops one step early.
MaxIterShort == t_max - 1

max_iter == t_max

\* ------------------------------------------------------------ bounds
\* Contents of tensors are integers modulo Mod.
Mod == 97
\* A dataset holds between batch_size - 1 and batch_size + MaxExtra images.
MaxExtra == 1

\* ------------------------------------------------------------ arithmetic
RECURSIVE GCD(_, _)
GCD(a, b) == IF b = 0 THEN a ELSE GCD(b, a % b)

Abs(a) == IF a < 0 THEN -a ELSE a

\* A python float, idealised as an exact rational in lowest terms.
Rat(n, d) ==
    LET g == GCD(Abs(n), d)
    IN  IF n = 0 THEN [num |-> 0, den |-> 1] ELSE [num |-> n \div g, den |-> d \div g]

RatAdd(p, q) == Rat(p.num * q.den + q.num * p.den, p.den * q.den)
RatMulInt(p, k) == Rat(p.num * k, p.den)
RatDivInt(p, k) == Rat(p.num, p.den * k)
Zero == Rat(0, 1)

\* The sum of the first k entries of a sequence of integers, and of all.
RECURSIVE SumTo(_, _)
SumTo(s, k) == IF k = 0 THEN 0 ELSE SumTo(s, k - 1) + s[k]

SumSeq(s) == SumTo(s, Len(s))

\* The same for a sequence of rationals.
RECURSIVE RatSumTo(_, _)
RatSumTo(s, k) == IF k = 0 THEN Zero ELSE RatAdd(RatSumTo(s, k - 1), s[k])

RatSum(s) == RatSumTo(s, Len(s))

\* ------------------------------------------------------------ tensors
Vec(d, v) == [dim |-> d, val |-> v % Mod]

\* torch.zeros(rows, cols)
Zeros(rows, cols) == [b \in 1..rows |-> Vec(cols, 0)]

\* nn.Linear(in, out) of layer `id` under parameter version p; a row of the
\* wrong width has no image (dim 0).
Linear(id, in, out, p, v) ==
    IF v.dim = in THEN Vec(out, v.val * 31 + id * 7 + p * 13 + 5) ELSE Vec(0, 0)

Relu(v) == Vec(v.dim, v.val * 3 + 1)
Sigmoid(v) == Vec(v.dim, v.val * 5 + 2)
Softplus(v) == Vec(v.dim, v.val * 7 + 3)

\* torch.cat((a, b), dim=-1)
Cat(a, b) == Vec(a.dim + b.dim, a.val * 11 + b.val * 19)

\* nn.GRUCell(in, hid)(input, h)
GRUCell(in, hid, p, input, h) ==
    IF input.dim = in /\ h.dim = hid
    THEN Vec(hid, input.val * 23 + h.val * 29 + p * 13 + 9)
    ELSE Vec(0, 0)

\* ------------------------------------------------------------ modules
\* Every forward takes the parameter version p the optimizer has reached.
Phi_x(p, x) == Relu(Linear(1, x_dim, h_dim, p, x))

Phi_z(p, z) == Relu(Linear(2, z_dim, h_dim, p, z))

\* Generator.forward(z, h_prev): the Bernoulli probabilities of one row.
GeneratorForward(p, z, h_prev) ==
    LET h0 == Cat(Phi_z(p, z), h_prev)
        h1 == Relu(Linear(3, h_dim + h_dim, h_dim, p, h0))
        h2 == Relu(Linear(4, h_dim, h_dim, p, h1))
    IN  [probs |-> Sigmoid(Linear(5, h_dim, x_dim, p, h2))]

\* Prior.forward(h_prev)
PriorForward(p, h_prev) ==
    LET h == Relu(Linear(6, h_dim, h_dim, p, h_prev))
    IN  [loc |-> Linear(7, h_dim, z_dim, p, h),
         scale |-> Softplus(Linear(8, h_dim, z_dim, p, h))]

\* Inference.forward(x, h_prev)
InferenceForward(p, x, h_prev) ==
    LET h0 == Cat(Phi_x(p, x), h_prev)
        h1 == Relu(Linear(9, h_dim + h_dim, h_dim, p, h0))
    IN  [loc |-> Linear(10, h_dim, z_dim, p, h1),
         scale |-> Softplus(Linear(11, h_dim, z_dim, p, h1))]

hidden_size == h_dim

\* Recurrence.forward(x, z, h_prev)
RecurrenceForward(p, x, z, h_prev) ==
    GRUCell(h_dim * 2, hidden_size, p, Cat(Phi_z(p, z), Phi_x(p, x)), h_prev)

\* ------------------------------------------------------------ distributions
\* The noise of draw r of the seeded generator for row b of the batch.
Eps(r, b) == (r * 41 + b * 43 + 1) % Mod

\* Normal(loc, scale).sample()
NormalSample(d, r, b) == Vec(d.loc.dim, d.loc.val + d.scale.val * Eps(r, b))

\* Bernoulli(probs).sample()
BernoulliSample(d, r, b) == Vec(d.probs.dim, d.probs.val * 37 + Eps(r, b))

\* Bernoulli(probs).sample_mean()
BernoulliMean(d) == d.probs

\* -log p(x | z, h_prev) of one row under the decoder.
NLLRow(p, x, z, h_prev) ==
    (GeneratorForward(p, z, h_prev).probs.val * 3 + x.val * 5 + 1) % Mod

\* KL[q(z | x, h_prev) || p(z | h_prev)] of one row.
KLRow(p, x, h_prev) ==
    LET q  == InferenceForward(p, x, h_prev)
        pr == PriorForward(p, h_prev)
    IN  (q.loc.val * 3 + q.scale.val * 5 + pr.loc.val * 7 + pr.scale.val * 11 + 1) % Mod

\* encoder_with_recurrence = encoder * recurrence, sampled from x and h_prev
\* with draw r: z from the encoder, then h from the recurrence.
EncoderWithRecurrenceSample(p, r, x, h_prev) ==
    LET z == [b \in DOMAIN x |-> NormalSample(InferenceForward(p, x[b], h_prev[b]), r, b)]
    IN  [x |-> x, h_prev |-> h_prev, z |-> z,
         h |-> [b \in DOMAIN x |-> RecurrenceForward(p, x[b], z[b], h_prev[b])]]

\* generate_from_prior = prior * decoder * recurrence, sampled from h_prev with
\* draws r and r + 1: z from the prior, x from the decoder, h from the recurrence.
GenerateFromPriorSample(p, r, h_prev) ==
    LET z == [b \in DOMAIN h_prev |-> NormalSample(PriorForward(p, h_prev[b]), r, b)]
        x == [b \in DOMAIN h_prev |->
                 BernoulliSample(GeneratorForward(p, z[b], h_prev[b]), r + 1, b)]
    IN  [h_prev |-> h_prev, z |-> z, x |-> x,
         h |-> [b \in DOMAIN h_prev |-> RecurrenceForward(p, x[b], z[b], h_prev[b])]]

\* vrnn_step_fn(t, x, h_prev)
vrnn_step_fn(p, r, t, x, h_prev) == EncoderWithRecurrenceSample(p, r, x, h_prev)

\* The per-row value of NLL(decoder) + KullbackLeibler(encoder, prior).
RowLoss(p, s, b) ==
    NLLRow(p, s.x[b], s.z[b], s.h_prev[b]) + KLRow(p, s.x[b], s.h_prev[b])

\* step_loss = (NLL(decoder) + KullbackLeibler(encoder, prior)).mean()
step_loss(p, s) ==
    Rat(SumSeq([b \in DOMAIN s.x |-> RowLoss(p, s, b)]), Len(s.x))

\* ------------------------------------------------------------ dataset adapter
\* Row r of image i of a dataset (kind 0: train, 1: test); mnist_transform
\* leaves a 28 x 28 matrix per image.
Image(kind, i) ==
    [r \in 1..fixed_t_size |-> Vec(x_dim, kind * 50 + i * fixed_t_size + r)]

\* The sizes a dataset may have: one short batch, one full batch, or a full
\* batch followed by a short one.
Sizes == (batch_size - 1)..(batch_size + MaxExtra)

\* shuffle=True: the order draw r of the seeded generator gives a dataset of
\* N images.
Shuffle(r, N) == [k \in 1..N |-> ((k - 1 + r * 5) % N) + 1]

\* len(loader)
NumBatches(N) == (N + batch_size - 1) \div batch_size

Min(a, b) == IF a < b THEN a ELSE b

\* The images of batch idx (from 0) of a pass over the dataset in `ord`.
BatchOf(kind, ord, idx) ==
    LET lo  == idx * batch_size + 1
        hi  == Min((idx + 1) * batch_size, Len(ord))
    IN  [j \in 1..(hi - lo + 1) |-> Image(kind, ord[lo + j - 1])]

\* tensor.transpose(0, 1) of a tensor with at least two axes
Transpose01(m) ==
    IF m = <<>> THEN <<>>
    ELSE [i \in 1..Len(m[1]) |-> [j \in 1..Len(m) |-> m[j][i]]]

\* data.size()[0]
Size0(m) == Len(m)

Kind(train_mode) == IF train_mode THEN 0 ELSE 1

\* ------------------------------------------------------------ state
VARIABLES
    pc,             \* where the notebook's last cell is
    epoch,          \* the epoch loop's variable
    dataset_len,    \* [train, test]: len(loader.dataset) of the two loaders
    params,         \* the version of the model parameters (optimizer steps taken)
    params_in,      \* params when the running data_loop / plot call was entered
    rng,            \* draws taken from the seeded generator
    train_mode,     \* data_loop: its argument
    order,          \* data_loop: the order the loader iterates in
    batch_idx,      \* data_loop: batches finished
    mean_loss,      \* data_loop: the accumulator
    n,              \* data_loop: its local batch_size
    batches,        \* data_loop: per finished batch <<loss, n, sum of row losses>>
    calls,          \* data_loop: [train, test] calls of model.train / model.test
    x,              \* the series handed to the loss
    h_prev,         \* the loss's h_prev entry
    t,              \* ARLoss: its loop variable
    step_loss_sum,  \* ARLoss: its accumulator
    step_losses,    \* ARLoss: <<t, step loss, sum of row losses>> per step taken
    samples,        \* ARLoss: what step_fn returned last
    train_loss, test_loss,
    writer,         \* the records written, in order
    g_x,            \* plot_image_from_latent: the list x
    g_h_prev,       \* plot_image_from_latent: h_prev
    g_step,         \* plot_image_from_latent: steps taken
    g_samples,      \* plot_image_from_latent: what generate_from_prior returned last
    sample          \* the last image batch returned

driver == <<epoch, dataset_len, train_loss, test_loss, writer>>
loop   == <<train_mode, order, batch_idx, mean_loss, n, batches, calls>>
arloss == <<x, h_prev, t, step_loss_sum, step_losses, samples>>
plot   == <<g_x, g_h_prev, g_step, g_samples, sample>>
vars   == <<pc, params, params_in, rng, driver, loop, arloss, plot>>

None == <<>>

Init ==
    /\ pc = "call_train"
    /\ epoch = 1
    /\ dataset_len \in [train : Sizes, test : Sizes]
    /\ params = 0
    /\ params_in = 0
    /\ rng = seed
    /\ train_mode = FALSE
    /\ order = None
    /\ batch_idx = 0
    /\ mean_loss = Zero
    /\ n = 0
    /\ batches = <<>>
    /\ calls = [train |-> 0, test |-> 0]
    /\ x = None /\ h_prev = None /\ t = 0
    /\ step_loss_sum = Zero /\ step_losses = <<>> /\ samples = None
    /\ train_loss = None /\ test_loss = None
    /\ writer = <<>>
    /\ g_x = <<>> /\ g_h_prev = None /\ g_step = 0 /\ g_samples = None
    /\ sample = None

\* len(loader.dataset) of the loader data_loop was given
DatasetLen(mode) == IF mode THEN dataset_len.train ELSE dataset_len.test

\* ------------------------------------------------------------ data_loop
\* data_loop is entered: mean_loss = 0 and the loader starts a shuffled pass.
DataLoopEnter ==
    /\ pc \in {"call_train", "call_test"}
    /\ train_mode' = (pc = "call_train")
    /\ mean_loss' = Zero
    /\ order' = Shuffle(rng, DatasetLen(pc = "call_train"))
    /\ rng' = rng + 1
    /\ batch_idx' = 0
    /\ batches' = <<>>
    /\ calls' = [train |-> 0, test |-> 0]
    /\ params_in' = params
    /\ pc' = "for_batch"
    /\ UNCHANGED <<params, n, driver, arloss, plot>>

\* batch_size = data.size()[0]
LocalBatchSize(data) == Size0(data)

\* data.view(t_max, -1, x_dim): the right shape without the transposition.
ViewOf(data) ==
    LET rows == Len(data)
        flat(k) == data[((k - 1) \div fixed_t_size) + 1][((k - 1) % fixed_t_size) + 1]
    IN  [i \in 1..fixed_t_size |-> [j \in 1..rows |-> flat((i - 1) * rows + j)]]

\* x = data.transpose(0, 1)
SeriesOf(data) == Transpose01(data)

\* A data_loop that zeroes h_prev for the first batch of a pass only and
\* then carries it from batch to batch.
CarriedHidden(rows) == IF batch_idx = 0 THEN Zeros(rows, hidden_size) ELSE h_prev

\* h_prev = torch.zeros(batch_size, recurrence.hidden_size)
InitialHidden(rows) == Zeros(rows, hidden_size)

\* The loop body up to the call of model.train / model.test, and the loss's
\* own setup: the series x is split off and the accumulator starts at 0.
BatchBegin ==
    /\ pc = "for_batch"
    /\ batch_idx < NumBatches(Len(order))
    /\ LET data == BatchOf(Kind(train_mode), order, batch_idx)
       IN  /\ n' = LocalBatchSize(data)
           /\ x' = SeriesOf(data)
           /\ h_prev' = InitialHidden(n')
    /\ t' = 0
    /\ step_loss_sum' = Zero
    /\ step_losses' = <<>>
    /\ samples' = None
    /\ pc' = "arloss"
    /\ UNCHANGED <<params, params_in, rng, driver, train_mode, order, batch_idx,
                   mean_loss, batches, calls, plot>>

\* update_value = {"h": "h_prev"}
UpdateValue(s) == s.h

\* One iteration of the auto-regressive loss: the series entry of step t is
\* handed to step_fn, the step loss is added, h_prev is updated.
ARStep ==
    /\ pc = "arloss"
    /\ t < max_iter
    /\ LET s == vrnn_step_fn(params, rng, t, x[t + 1], h_prev)
           l == step_loss(params, s)
       IN  /\ samples' = s
           /\ step_loss_sum' = RatAdd(step_loss_sum, l)
           /\ step_losses' = Append(step_losses,
                  <<t, l, SumSeq([b \in DOMAIN s.x |-> RowLoss(params, s, b)])>>)
           /\ h_prev' = UpdateValue(s)
    /\ rng' = rng + 1
    /\ t' = t + 1
    /\ UNCHANGED <<pc, params, params_in, driver, loop, x, plot>>

\* A data_loop that calls model.train in both branches.
AlwaysTrain(mode) == TRUE

\* if train_mode: model.train(...) else: model.test(...)
CallsTrain(mode) == mode

\* Model.train: the loss is minimised by one step of the optimizer, which
\* leaves a new version of the parameters.  Model.test takes no step.
OptimizerStep(p) == p + 1

\* A data_loop that weights every batch by the loader's batch size.
WeightedByGlobal(l, bs) == RatMulInt(l, batch_size)

\* What mean_loss grows by for a batch whose loss is l: l.item() * batch_size
Weighted(l, bs) == RatMulInt(l, bs)

\* The loss is complete; model.train takes one optimizer step and model.test
\* none; either returns the loss, which data_loop adds to mean_loss.
BatchEnd ==
    /\ pc = "arloss"
    /\ t >= max_iter
    /\ IF CallsTrain(train_mode)
       THEN /\ params' = OptimizerStep(params)
            /\ calls' = [calls EXCEPT !.train = @ + 1]
       ELSE /\ params' = params
            /\ calls' = [calls EXCEPT !.test = @ + 1]
    /\ mean_loss' = RatAdd(mean_loss, Weighted(step_loss_sum, n))
    /\ batches' = Append(batches,
           <<step_loss_sum, n, SumSeq([k \in DOMAIN step_losses |-> step_losses[k][3]])>>)
    /\ batch_idx' = batch_idx + 1
    /\ pc' = "for_batch"
    /\ UNCHANGED <<params_in, rng, driver, train_mode, order, n, arloss, plot>>

\* mean_loss /= len(loader.dataset)
Normalise(total, mode) == RatDivInt(total, DatasetLen(mode))

\* An epoch loop that logs right after the train pass.
LogAfterTrain(mode) == "log"

\* Where the epoch loop goes on after a call of data_loop: the train pass is
\* followed by the test pass, the test pass by the two add_scalar calls.
AfterDataLoop(mode) == IF mode THEN "call_test" ELSE "log"

\* The loader is exhausted: data_loop divides and returns to the epoch loop,
\* which binds train_loss or test_loss.
DataLoopReturn ==
    /\ pc = "for_batch"
    /\ batch_idx >= NumBatches(Len(order))
    /\ mean_loss' = Normalise(mean_loss, train_mode)
    /\ IF train_mode
       THEN /\ train_loss' = mean_loss'
            /\ test_loss' = test_loss
       ELSE /\ test_loss' = mean_loss'
            /\ train_loss' = train_loss
    /\ pc' = AfterDataLoop(train_mode)
    /\ UNCHANGED <<params, params_in, rng, epoch, dataset_len, writer, train_mode,
                   order, batch_idx, n, batches, calls, arloss, plot>>

\* ------------------------------------------------------------ epoch loop
\* writer.add_scalar(tag, value, step)
Scalar(tag, value, step) == [tag |-> tag, value |-> value, step |-> step]

\* writer.add_scalar('train_loss', ...); writer.add_scalar('test_loss', ...)
LogScalars ==
    /\ pc = "log"
    /\ writer' = writer \o << Scalar("train_loss", train_loss, epoch),
                              Scalar("test_loss", test_loss, epoch) >>
    /\ pc' = "call_plot"
    /\ UNCHANGED <<params, params_in, rng, epoch, dataset_len, train_loss, test_loss,
                   loop, arloss, plot>>

\* ------------------------------------------------------------ plot_image_from_latent
\* x = []; h_prev = torch.zeros(batch_size, recurrence.hidden_size)
PlotBegin ==
    /\ pc = "call_plot"
    /\ g_x' = <<>>
    /\ g_h_prev' = Zeros(batch_size, hidden_size)
    /\ g_step' = 0
    /\ g_samples' = None
    /\ params_in' = params
    /\ pc' = "generate"
    /\ UNCHANGED <<params, rng, driver, loop, arloss, sample>>

\* A generation step that decodes from the updated hidden state.
MeanInputUpdated(s) == [z |-> s.z, h_prev |-> s.h]

\* The values decoder.sample_mean is given: z and h_prev of the samples.
MeanInput(s) == [z |-> s.z, h_prev |-> s.h_prev]

\* decoder.sample_mean({"z": ..., "h_prev": ...})
DecoderSampleMean(p, in) ==
    [b \in DOMAIN in.z |-> BernoulliMean(GeneratorForward(p, in.z[b], in.h_prev[b]))]

\* A generation loop that keeps the h_prev it was given.
StaleHidden(s) == s.h_prev

\* h_prev = samples["h"]
NextHidden(s) == s.h

\* x_t[None, :]
Unsqueeze0(m) == <<m>>

\* One pass of the generation loop.
GenStep ==
    /\ pc = "generate"
    /\ g_step < t_max
    /\ LET s   == GenerateFromPriorSample(params, rng, g_h_prev)
           x_t == DecoderSampleMean(params, MeanInput(s))
       IN  /\ g_samples' = s
           /\ g_h_prev' = NextHidden(s)
           /\ g_x' = Append(g_x, Unsqueeze0(x_t))
    /\ rng' = rng + 2
    /\ g_step' = g_step + 1
    /\ UNCHANGED <<pc, params, params_in, driver, loop, arloss, sample>>

\* torch.cat(list, dim=0)
RECURSIVE CatTo(_, _)
CatTo(l, k) == IF k = 0 THEN <<>> ELSE CatTo(l, k - 1) \o l[k]

CatDim0(l) == CatTo(l, Len(l))

\* tensor[:, None]
Unsqueeze1(m) == [i \in DOMAIN m |-> <<m[i]>>]

\* A plot_image_from_latent that returns the concatenation untransposed.
CatOnly(l) == CatDim0(l)

\* x = torch.cat(x, dim=0).transpose(0, 1); return x
PlotResult(l) == Transpose01(CatDim0(l))

\* The shape of a tensor of four axes whose entries are row vectors.
Shape4(m) == <<Len(m), Len(m[1]), Len(m[1][1]), m[1][1][1].dim>>

\* writer.add_image(tag, img, step): the record keeps the image's shape.
ImageRecord(tag, img, step) == [tag |-> tag, value |-> Shape4(img), step |-> step]

\* for epoch in range(1, epochs)
LastEpochShort == epochs - 1

\* for epoch in range(1, epochs + 1)
LastEpoch == epochs

\* The generation loop is over: plot_image_from_latent returns, the image is
\* logged, and the epoch loop moves on.
PlotReturn ==
    /\ pc = "generate"
    /\ g_step >= t_max
    /\ sample' = Unsqueeze1(PlotResult(g_x))
    /\ writer' = Append(writer, ImageRecord("Image_from_latent", sample', epoch))
    /\ IF epoch < LastEpoch
       THEN /\ epoch' = epoch + 1
            /\ pc' = "call_train"
       ELSE /\ epoch' = epoch
            /\ pc' = "done"
    /\ UNCHANGED <<params, params_in, rng, dataset_len, train_loss, test_loss,
                   loop, arloss, g_x, g_h_prev, g_step, g_samples>>

Next ==
    \/ DataLoopEnter
    \/ BatchBegin
    \/ ARStep
    \/ BatchEnd
    \/ DataLoopReturn
    \/ LogScalars
    \/ PlotBegin
    \/ GenStep
    \/ PlotReturn

Spec == Init /\ [][Next]_vars

\* ------------------------------------------------------------ properties
InDataLoop == pc \in {"for_batch", "arloss"}

\* The number of sequences in batch idx of a pass over N images.
RowsOfBatch(N, idx) == Min(batch_size, N - idx * batch_size)

ZeroMatrix(rows) == [b \in 1..rows |-> [dim |-> 100, val |-> 0]]

\* C1: at the first timestep of every batch of data_loop, h_prev is the zero
\* matrix with one row per sequence of that batch (data.size()[0], also on a
\* short last batch), and at the first step of plot_image_from_latent it is
\* the zero matrix with batch_size rows; no earlier hidden state reaches it.
C1_HiddenResetAtSequenceStart ==
    /\ (pc = "arloss" /\ t = 0) =>
           /\ n = RowsOfBatch(Len(order), batch_idx)
           /\ n = Len(x[1])
           /\ h_prev = ZeroMatrix(n)
    /\ (pc = "generate" /\ g_step = 0) => g_h_prev = ZeroMatrix(batch_size)

\* The first timestep of the short second batch of a test pass in a later
\* epoch, after generation calls and earlier batches have left hidden states.
C1_Witness ==
    /\ pc = "arloss" /\ t = 0 /\ ~train_mode
    /\ epoch = 2 /\ batch_idx = 1 /\ n < batch_size
    /\ g_step = t_max /\ g_h_prev # ZeroMatrix(batch_size)
    /\ h_prev = ZeroMatrix(n)

\* C2: within a sequence, the h_prev a step consumes is the h the Recurrence
\* produced at the step before, in the auto-regressive loss and in the
\* generation loop alike; every step hands its own h on.
C2_HiddenCarried ==
    [][ /\ (pc = "arloss" /\ t' = t + 1) =>
               /\ samples'.h_prev = h_prev
               /\ t >= 1 => samples'.h_prev = samples.h
               /\ samples'.h = [b \in 1..n |->
                      RecurrenceForward(params, samples'.x[b], samples'.z[b], h_prev[b])]
               /\ h_prev' = samples'.h
        /\ (pc = "generate" /\ g_step' = g_step + 1) =>
               /\ g_samples'.h_prev = g_h_prev
               /\ g_step >= 1 => g_samples'.h_prev = g_samples.h
               /\ g_samples'.h = [b \in 1..batch_size |->
                      RecurrenceForward(params, g_samples'.x[b], g_samples'.z[b], g_h_prev[b])]
               /\ g_h_prev' = g_samples'.h
      ]_vars

\* A generation loop past its second step, after a loss of 28 steps: both
\* carry the last h, which differs from the h_prev that step was given.
C2_Witness ==
    /\ pc = "generate" /\ g_step >= 2
    /\ g_h_prev = g_samples.h /\ g_samples.h # g_samples.h_prev
    /\ t = 28 /\ h_prev = samples.h /\ samples.h # samples.h_prev

\* C3: the loss of a batch is the sum of the step losses of exactly 28 steps,
\* taken for t = 0, 1, ..., 27 in this order, each the mean over the batch of
\* the negative log-likelihood plus the KL divergence; both values t_max is
\* given are 28.
C3_LossIsSumOverSteps ==
    /\ fixed_t_size = 28 /\ t_max = 28
    /\ pc = "arloss" =>
           /\ t <= 28
           /\ Len(step_losses) = t
           /\ \A k \in 1..t : step_losses[k][1] = k - 1
           /\ step_loss_sum = RatSum([k \in 1..t |-> step_losses[k][2]])
           /\ t >= 1 =>
                  step_losses[t][2] =
                      Rat(SumSeq([b \in 1..n |->
                              NLLRow(params, samples.x[b], samples.z[b], samples.h_prev[b])
                              + KLRow(params, samples.x[b], samples.h_prev[b])]), n)
    /\ (pc = "for_batch" /\ batch_idx >= 1) =>
           /\ t = 28
           /\ Len(step_losses) = 28
           /\ batches[batch_idx][1] = RatSum([k \in 1..28 |-> step_losses[k][2]])

\* A finished batch of two or more sequences whose loss is not an integer.
C3_Witness ==
    /\ pc = "for_batch" /\ batch_idx = 1 /\ n >= 2
    /\ Len(step_losses) = 28
    /\ batches[1][1].den > 1
    /\ batches[1][1] = step_loss_sum

\* C4: the series handed to the loss has 28 entries, entry t holding row t of
\* every image of the batch (x[t][b] = data[b][t]), and the observation
\* consumed at timestep t is entry t.
C4_RowsAsTimesteps ==
    pc = "arloss" =>
        /\ Len(x) = 28
        /\ \A tt \in 0..27 :
               /\ Len(x[tt + 1]) = n
               /\ \A b \in 1..n :
                      x[tt + 1][b] =
                          Image(Kind(train_mode), order[batch_idx * batch_size + b])[tt + 1]
        /\ t >= 1 => samples.x = x[t]

\* The last timestep of a batch: it consumed row 28 of every image, and the
\* series is not symmetric in its two axes.
C4_Witness ==
    /\ pc = "arloss" /\ t = 28 /\ n >= 2
    /\ samples.x = x[28]
    /\ x[28][2] = Image(Kind(train_mode), order[batch_idx * batch_size + 2])[28]
    /\ x[1][2] # x[2][1]

TrainBatches == NumBatches(dataset_len.train)
TestBatches  == NumBatches(dataset_len.test)

\* The tag the k-th record of a run carries.
TagOf(k) ==
    CASE (k - 1) % 3 = 0 -> "train_loss"
      [] (k - 1) % 3 = 1 -> "test_loss"
      [] OTHER -> "Image_from_latent"

\* C5: in every epoch e the train pass is complete (every train batch has
\* been trained on) before the test pass begins, the test pass is complete
\* before anything of epoch e is written, the records of epoch e are one
\* train_loss, one test_loss and one Image_from_latent, in this order and
\* tagged with step e, and epoch e + 1 starts only after the three are written.
C5_EpochOrder ==
    /\ epoch \in 1..10
    /\ \A k \in 1..Len(writer) :
           /\ writer[k].step = ((k - 1) \div 3) + 1
           /\ writer[k].tag = TagOf(k)
    /\ pc \in {"call_train", "for_batch", "arloss", "call_test", "log"} =>
           Len(writer) = 3 * (epoch - 1)
    /\ pc \in {"call_plot", "generate"} =>
           /\ Len(writer) = 3 * (epoch - 1) + 2
           /\ writer[Len(writer) - 1].value = train_loss
           /\ writer[Len(writer)].value = test_loss
    /\ pc = "done" => Len(writer) = 3 * epoch
    /\ pc = "call_train" => params = (epoch - 1) * TrainBatches
    /\ (InDataLoop /\ train_mode) =>
           /\ params = (epoch - 1) * TrainBatches + batch_idx
           /\ batch_idx <= TrainBatches
    /\ (pc = "call_test" \/ (InDataLoop /\ ~train_mode)
           \/ pc \in {"log", "call_plot", "generate", "done"}) =>
           params = epoch * TrainBatches
    /\ (InDataLoop /\ ~train_mode) =>
           /\ calls.test = batch_idx
           /\ batch_idx <= TestBatches
    /\ pc \in {"log", "call_plot", "generate", "done"} => calls.test = TestBatches

\* The second epoch's scalars are written, after two batches of each loader.
C5_Witness ==
    /\ pc = "call_plot" /\ epoch = 2
    /\ Len(writer) = 5
    /\ writer[4] = Scalar("train_loss", train_loss, 2)
    /\ writer[5] = Scalar("test_loss", test_loss, 2)
    /\ TrainBatches = 2 /\ TestBatches = 2
    /\ params = 4

\* plot_image_from_latent has returned and has not been called again.
PlotReturned == g_step = t_max /\ pc # "generate" /\ Len(writer) >= 3

\* C6: plot_image_from_latent(batch_size) takes exactly 28 generation steps
\* and returns, for each of the batch_size samples, 28 rows of width 28 in
\* step order: row t of sample b is the row generated for b at step t.  (The
\* variable sample holds the result with the axis [:, None] adds, so the
\* returned image of b is sample[b][1].)
C6_SampleShape ==
    /\ pc = "generate" => (g_step <= 28 /\ Len(g_x) = g_step)
    /\ PlotReturned =>
           /\ g_step = 28 /\ Len(g_x) = 28
           /\ Len(sample) = batch_size
           /\ \A b \in 1..batch_size :
                  /\ Len(sample[b]) = 1
                  /\ Len(sample[b][1]) = 28
                  /\ \A tt \in 1..28 :
                         /\ sample[b][1][tt].dim = 28
                         /\ sample[b][1][tt] = g_x[tt][1][b]
           /\ writer[Len(writer) - (Len(writer) % 3)].value = <<batch_size, 1, 28, 28>>

\* An image batch has been returned and logged; its rows differ along both axes.
C6_Witness ==
    /\ pc = "call_train" /\ epoch = 2 /\ PlotReturned
    /\ Len(sample) = 32 /\ Len(sample[32][1]) = 28
    /\ sample[2][1][1] # sample[1][1][2]
    /\ writer[3] = [tag |-> "Image_from_latent", value |-> <<32, 1, 28, 28>>, step |-> 1]

\* What data_loop must return for the batches it has seen, over N sequences.
WeightedMean(bs, N) ==
    RatDivInt(RatSum([i \in DOMAIN bs |-> RatMulInt(bs[i][1], bs[i][2])]), N)

\* C7: data_loop starts its accumulator at 0, every batch of the loader
\* contributes once, and it returns sum_i(batch_loss_i * n_i) / len(dataset)
\* with n_i the number of sequences of batch i; the n_i sum to the dataset
\* size, so the value is the mean over all sequences of the dataset of the
\* per-sequence loss, also when the last batch is short.
C7_SizeWeightedMean ==
    /\ (pc = "for_batch" /\ batch_idx = 0) => mean_loss = Zero
    /\ InDataLoop =>
           /\ Len(batches) = batch_idx
           /\ \A i \in 1..batch_idx : batches[i][2] = RowsOfBatch(Len(order), i - 1)
           /\ mean_loss = RatSum([i \in 1..batch_idx |-> RatMulInt(batches[i][1], batches[i][2])])
    /\ pc = "call_test" =>
           /\ Len(batches) = TrainBatches
           /\ SumSeq([i \in DOMAIN batches |-> batches[i][2]]) = dataset_len.train
           /\ train_loss = WeightedMean(batches, dataset_len.train)
           /\ train_loss = Rat(SumSeq([i \in DOMAIN batches |-> batches[i][3]]),
                               dataset_len.train)
    /\ pc = "log" =>
           /\ Len(batches) = TestBatches
           /\ SumSeq([i \in DOMAIN batches |-> batches[i][2]]) = dataset_len.test
           /\ test_loss = WeightedMean(batches, dataset_len.test)
           /\ test_loss = Rat(SumSeq([i \in DOMAIN batches |-> batches[i][3]]),
                              dataset_len.test)

\* A test pass over a full batch and a short one has returned.
C7_Witness ==
    /\ pc = "log"
    /\ Len(batches) = 2 /\ batches[1][2] = batch_size /\ batches[2][2] < batch_size
    /\ test_loss = WeightedMean(batches, dataset_len.test)
    /\ test_loss.num > 0

\* C8: a data_loop in train mode calls model.train once per batch and never
\* model.test, one in test mode calls model.test once per batch and never
\* model.train; the parameters change by one optimizer step per train batch
\* and are, during and after a test pass and a plot_image_from_latent call,
\* what they were when it was entered.
C8_UpdatesOnlyInTrain ==
    /\ (InDataLoop /\ train_mode) =>
           /\ calls = [train |-> batch_idx, test |-> 0]
           /\ params = params_in + batch_idx
    /\ pc = "call_test" =>
           /\ calls = [train |-> TrainBatches, test |-> 0]
           /\ params = params_in + TrainBatches
    /\ (InDataLoop /\ ~train_mode) =>
           /\ calls = [train |-> 0, test |-> batch_idx]
           /\ params = params_in
    /\ pc = "log" =>
           /\ calls = [train |-> 0, test |-> TestBatches]
           /\ params = params_in
    /\ pc \in {"generate", "call_train", "done"} => params = params_in

\* A test pass of two batches has returned after a train pass of two.
C8_Witness ==
    /\ pc = "log" /\ epoch = 2
    /\ calls = [train |-> 0, test |-> 2]
    /\ params = 4 /\ params_in = 4

\* The state the run must end in.
FinalState ==
    /\ pc = "done"
    /\ epoch = 10
    /\ Len(writer) = 30
    /\ \A e \in 1..10 :
           /\ writer[3 * e - 2].tag = "train_loss" /\ writer[3 * e - 2].step = e
           /\ writer[3 * e - 1].tag = "test_loss" /\ writer[3 * e - 1].step = e
           /\ writer[3 * e].tag = "Image_from_latent" /\ writer[3 * e].step = e
    /\ params = 10 * TrainBatches
    /\ rng = seed + 10 * (2 + 28 * (TrainBatches + TestBatches) + 2 * 28)

\* The steps one call of data_loop takes over a loader of nb batches: its
\* entry, per batch the setup, 28 timesteps and the end, and its return.
PassSteps(nb) == 2 + nb * 30

\* The steps of a data_loop call taken since its entry.
StepsInPass == batch_idx * 30 + (IF pc = "arloss" THEN 1 + t ELSE 0)

\* The steps of an epoch after its two passes: the scalars, the start of the
\* generation, its 28 steps, and its return with the image.
TailSteps == 3 + 28

\* The steps the run still has to take.
StepsLeft ==
    (10 - epoch) * (PassSteps(TrainBatches) + PassSteps(TestBatches) + TailSteps)
    + CASE pc = "call_train" -> PassSteps(TrainBatches) + PassSteps(TestBatches) + TailSteps
        [] InDataLoop /\ train_mode ->
               PassSteps(TrainBatches) - 1 - StepsInPass + PassSteps(TestBatches) + TailSteps
        [] pc = "call_test" -> PassSteps(TestBatches) + TailSteps
        [] InDataLoop /\ ~train_mode -> PassSteps(TestBatches) - 1 - StepsInPass + TailSteps
        [] pc = "log" -> TailSteps
        [] pc = "call_plot" -> TailSteps - 1
        [] pc = "generate" -> TailSteps - 2 - g_step
        [] OTHER -> 0

\* The places of the cell from which it goes on.
Running == pc \in {"call_train", "call_test", "for_batch", "arloss", "log",
                   "call_plot", "generate"}

\* C9: the run terminates after exactly 10 epochs, each one visit to every
\* train batch, one to every test batch and one generation of 28 steps:
\* every step brings the run one step closer to its end, it goes on until no
\* step is left, and it then has stopped with 10 train_loss records, 10
\* test_loss records and 10 images tagged 1..10.
C9_Terminates ==
    [][ /\ StepsLeft' = StepsLeft - 1
        /\ StepsLeft' >= 0
        /\ (StepsLeft' = 0) = (pc' = "done")
        /\ pc' # "done" => Running'
        /\ pc' = "done" => FinalState'
      ]_vars

\* The run is over, each pass having had two batches.
C9_Witness ==
    /\ pc = "done" /\ Len(writer) = 30 /\ writer[30].step = 10
    /\ TrainBatches = 2 /\ TestBatches = 2 /\ params = 20

\* C10: in a generation step the row appended is the decoder mean of the z
\* drawn from the prior at this step and the h_prev that entered the step
\* (samples["h_prev"] is that h_prev), and the next hidden state is the
\* Recurrence output for the same z and h_prev and the x the decoder sampled
\* inside generate_from_prior, not the appended mean row.
C10_GenerationStep ==
    [][ (pc = "generate" /\ g_step' = g_step + 1) =>
            LET s  == g_samples'
                B  == 1..batch_size
            IN  /\ s.h_prev = g_h_prev
                /\ s.z = [b \in B |-> NormalSample(PriorForward(params, g_h_prev[b]), rng, b)]
                /\ s.x = [b \in B |->
                       BernoulliSample(GeneratorForward(params, s.z[b], g_h_prev[b]), rng + 1, b)]
                /\ g_x'[g_step'] =
                       <<[b \in B |-> GeneratorForward(params, s.z[b], g_h_prev[b]).probs]>>
                /\ g_h_prev' = [b \in B |-> RecurrenceForward(params, s.x[b], s.z[b], g_h_prev[b])]
      ]_vars

\* A later generation step: the appended mean row is neither the sampled x
\* nor decoded from the updated hidden state.
C10_Witness ==
    /\ pc = "generate" /\ g_step >= 2
    /\ g_samples.h # g_samples.h_prev
    /\ g_x[g_step][1] = DecoderSampleMean(params, MeanInput(g_samples))
    /\ g_x[g_step][1] # g_samples.x
    /\ g_x[g_step][1] # DecoderSampleMean(params, [z |-> g_samples.z, h_prev |-> g_samples.h])
====
